---- MODULE Spec2Model ----
(***************************************************************************)
(* A model of click_tools/cli.py: the comma-separated converters           *)
(* (ChoiceCommaSeparated, ListCommaSeparated), TypeConvertingIterator and  *)
(* the file / URL / standard-input converters with their temporary files.  *)
(*                                                                         *)
(* A Python str is a sequence of one-character strings; a Python list is a *)
(* sequence; keyword arguments are a function from the given keys.         *)
(***************************************************************************)
EXTENDS Integers, Sequences, FiniteSets, TLC

\* ------------------------------------------------------------------ bounds

\* Longest string token handed to a comma-separated converter.
MaxLen == 4

\* Longest pre-split list handed to a comma-separated converter.
MaxListLen == 2

\* Longest source sequence a TypeConvertingIterator is built over.
MaxSrcLen == 3

\* Most convert calls made while one command's arguments are parsed.
MaxCalls == 2

\* Lines standard input holds at most.
MaxStdin == 2

\* ----------------------------------------------------------------- strings

\* The characters tokens are built from: letters in both cases, the wildcard
\* star, the separator and a whitespace character.
Chars == {"a", "A", "l", "*", ",", " "}

Whitespace == {" ", "NL", "CR"}

RECURSIVE StrsUpTo(_)
StrsUpTo(n) ==
    IF n = 0 THEN {<<>>}
    ELSE LET shorter == StrsUpTo(n - 1)
         IN shorter \cup {Append(s, c) : s \in {t \in shorter : Len(t) = n - 1}, c \in Chars}

\* str.lower(), character by character.
LowerChar(c) == IF c = "A" THEN "a" ELSE c

lower(s) == [i \in 1..Len(s) |-> LowerChar(s[i])]

\* str.split(sep): the pieces between separators; always at least one piece.
RECURSIVE SplitFrom(_, _, _, _, _)
SplitFrom(s, sep, i, cur, acc) ==
    IF i > Len(s) THEN Append(acc, cur)
    ELSE IF s[i] = sep THEN SplitFrom(s, sep, i + 1, <<>>, Append(acc, cur))
    ELSE SplitFrom(s, sep, i + 1, Append(cur, s[i]), acc)

split(s, sep) == SplitFrom(s, sep, 1, <<>>, <<>>)

\* str.strip(): drops leading and trailing whitespace only.
RECURSIVE LStrip(_)
LStrip(s) ==
    IF s # <<>> /\ Head(s) \in Whitespace THEN LStrip(Tail(s)) ELSE s

RECURSIVE RStrip(_)
RStrip(s) ==
    IF s # <<>> /\ s[Len(s)] \in Whitespace THEN RStrip(SubSeq(s, 1, Len(s) - 1)) ELSE s

strip(s) == RStrip(LStrip(s))

\* The split without the strip: the parts keep their padding.
StrippedParts_NoStrip(s) == split(s, ",")

\* A split that leaves the empty parts out.
StrippedParts_DropEmpty(s) ==
    LET pieces == split(s, ",")
        IsFilled(p) == strip(p) # <<>>
        filled == SelectSeq(pieces, IsFilled)
    IN [i \in 1..Len(filled) |-> strip(filled[i])]

\* [ss.strip() for ss in value.split(",")]
StrippedParts(s) ==
    LET pieces == split(s, ",") IN [i \in 1..Len(pieces) |-> strip(pieces[i])]

\* ------------------------------------------------------------------ values

\* A value handed to convert: a str, a pre-split list, or None.
StrValue(s) == [kind |-> "str", s |-> s, items |-> <<>>]
ListValue(l) == [kind |-> "list", s |-> <<>>, items |-> l]
NoneValue == [kind |-> "none", s |-> <<>>, items |-> <<>>]

\* A test that takes None alone for falsy.
Falsy_NoneOnly(value) == value.kind = "none"

\* Python truthiness: None, "" and [] are falsy.
Falsy(value) ==
    \/ value.kind = "none"
    \/ value.kind = "str" /\ value.s = <<>>
    \/ value.kind = "list" /\ value.items = <<>>

\* isinstance(value, list)
IsList(value) == value.kind = "list"

ListElems == {<<"a">>, <<" ", "a">>, <<"A">>, <<"*">>}

RECURSIVE ListsUpTo(_)
ListsUpTo(n) ==
    IF n = 0 THEN {<<>>}
    ELSE LET shorter == ListsUpTo(n - 1)
         IN shorter \cup {Append(l, e) : l \in {t \in shorter : Len(t) = n - 1}, e \in ListElems}

CommaValues ==
    {StrValue(s) : s \in StrsUpTo(MaxLen)}
        \cup {ListValue(l) : l \in ListsUpTo(MaxListLen)}
        \cup {NoneValue}

\* ------------------------------------------------------- keyword arguments

KwargsOver(keys) == UNION {[K -> BOOLEAN] : K \in SUBSET keys}

\* kwargs.get(key, default)
KwGet(kwargs, key, default) == IF key \in DOMAIN kwargs THEN kwargs[key] ELSE default

\* if key in kwargs: del kwargs[key]
KwDel(kwargs, key) == [k \in (DOMAIN kwargs) \ {key} |-> kwargs[k]]

\* click.ParamType defines no __init__, so super().__init__(*args, **kwargs)
\* is object.__init__, which raises TypeError on any argument left over.
SuperInitOk(kwargs) == DOMAIN kwargs = {}

\* --------------------------------------------------------------- variables

VARIABLES
    conv,       \* the comma-separated converter in use: "choice" or "list"
    kwargs,     \* keyword arguments handed to __init__
    obj,        \* the converter object's attributes (self.*) after __init__
    value,      \* the value handed to convert
    pc,         \* "new", "ready", "init_raised", "returned" or "raised"
    branch,     \* the return/raise statement convert left through
    parts,      \* the local list after splitting and stripping
    checked,    \* the parts the validation loop has tested, in order
    ret,        \* the returned list
    err         \* the raised error

commaVars == <<conv, kwargs, obj, value, pc, branch, parts, checked, ret, err>>

VARIABLES
    src,        \* the elements of the source the iterator is built over
    fn,         \* conversion_function: "none" or "int"
    srcPos,     \* how many elements the underlying iterator has handed out
    teePos,     \* position of tee_iterator, the branch the check pulls from
    iterPos,    \* position of self.iterator, the branch __next__ pulls from
    applied,    \* the elements conversion_function has been called on, in order
    out,        \* what the pulls so far returned, in order
    tpc,        \* "new", "ready", "ctor_raised", "exhausted"
    terr        \* the exception the last constructor call or pull raised

iterVars == <<src, fn, srcPos, teePos, iterPos, applied, out, tpc, terr>>

VARIABLES
    fconv,      \* the file converter class in use
    mode,       \* self.mode, the mode the converter was built with
    fs,         \* the paths that exist, temporary files aside
    phase,      \* the command: "parsing", "finished", "closed"
    tmp,        \* the temporary files created so far, in creation order
    onClose,    \* the cleanups registered with ctx.call_on_close, in order
    gets,       \* the URLs requests.get was called with, in order
    ncalls,     \* convert calls made so far
    call,       \* the last convert call: its arguments and its outcome
    ftype,      \* FileIterStringParamType's self.type: "none" or "int"
    stdin,      \* standard input: lines taken from it so far, end reached
    pull,       \* what the caller's last next() on a returned stream gave
    readback    \* what the caller's read() on a returned handle gave

fileVars ==
    <<fconv, mode, fs, phase, tmp, onClose, gets, ncalls, call, ftype, stdin, pull,
      readback>>

vars == <<commaVars, iterVars, fileVars>>

NoErr == [kind |-> "none", msg |-> "none", val |-> <<>>]

\* self.fail("Value {} is not a valid choice.".format(val)) raises
\* click.BadParameter with the offending value in its message.
NotAValidChoice(val) == [kind |-> "BadParameter", msg |-> "is not a valid choice", val |-> val]

TypeError ==
    [kind |-> "TypeError", msg |-> "object.__init__() takes exactly one argument", val |-> <<>>]

NoObj == [choices |-> <<>>, allow_wildcard |-> TRUE, case_sensitive |-> TRUE, unique |-> TRUE]

\* The choices lists converters are configured with.
ChoiceLists ==
    { << <<"a">>, <<"l">> >>,
      << <<"A">> >>,
      << <<"A", "l">>, <<"*">> >>,
      << <<"a">>, <<>> >> }

\* The keyword arguments callers pass to the two constructors.
KwKeys == {"allow_wildcard", "case_sensitive", "unique"}

\* ---------------------------------------------------- ChoiceCommaSeparated

\* ChoiceCommaSeparated.__init__: reads the two options with default True,
\* deletes them from kwargs and hands the rest to super().__init__.
CcsAttrs(choices, kw) ==
    [choices |-> choices,
     allow_wildcard |-> KwGet(kw, "allow_wildcard", TRUE),
     case_sensitive |-> KwGet(kw, "case_sensitive", TRUE),
     unique |-> TRUE]

CcsLeftover(kw) == KwDel(KwDel(kw, "allow_wildcard"), "case_sensitive")

CcsInit ==
    /\ conv = "choice"
    /\ pc = "new"
    /\ \E choices \in ChoiceLists :
          IF SuperInitOk(CcsLeftover(kwargs))
          THEN /\ obj' = CcsAttrs(choices, kwargs)
               /\ pc' = "ready"
               /\ err' = NoErr
          ELSE /\ obj' = NoObj
               /\ pc' = "init_raised"
               /\ err' = TypeError
    /\ UNCHANGED <<conv, kwargs, value, branch, parts, checked, ret>>
    /\ UNCHANGED <<iterVars, fileVars>>

\* any(val in ("*", "all") for val in value)
Wildcards == {<<"*">>, <<"a", "l", "l">>}

AnyWildcard(ps) == \E i \in 1..Len(ps) : ps[i] \in Wildcards

\* The two branches under the flag values their name suggests.
IsValidChoice_FlagAsNamed(self, val) ==
    IF ~self.case_sensitive
    THEN lower(val) \in {lower(self.choices[j]) : j \in 1..Len(self.choices)}
    ELSE val \in {self.choices[j] : j \in 1..Len(self.choices)}

\* The membership test of the validation loop (lines 123-128).
IsValidChoice(self, val) ==
    IF self.case_sensitive
    THEN lower(val) \in {lower(self.choices[j]) : j \in 1..Len(self.choices)}
    ELSE val \in {self.choices[j] : j \in 1..Len(self.choices)}

\* A loop that collects every invalid part and fails after the last one.
RECURSIVE ValidateAllFrom(_, _, _, _, _)
ValidateAllFrom(self, ps, i, seen, bad) ==
    IF i > Len(ps)
    THEN IF bad = <<>>
         THEN [pc |-> "returned", branch |-> "validated", parts |-> ps,
               checked |-> seen, ret |-> ps, err |-> NoErr]
         ELSE [pc |-> "raised", branch |-> "invalid", parts |-> ps,
               checked |-> seen, ret |-> <<>>, err |-> NotAValidChoice(bad[Len(bad)])]
    ELSE ValidateAllFrom(self, ps, i + 1, Append(seen, ps[i]),
                         IF IsValidChoice(self, ps[i]) THEN bad ELSE Append(bad, ps[i]))

ValidateFrom_Exhaustive(self, ps, i, seen) == ValidateAllFrom(self, ps, i, seen, <<>>)

\* for val in value: ... self.fail(...) on the first part that is no choice.
RECURSIVE ValidateFrom(_, _, _, _)
ValidateFrom(self, ps, i, seen) ==
    IF i > Len(ps)
    THEN [pc |-> "returned", branch |-> "validated", parts |-> ps,
          checked |-> seen, ret |-> ps, err |-> NoErr]
    ELSE IF ~IsValidChoice(self, ps[i])
    THEN [pc |-> "raised", branch |-> "invalid", parts |-> ps,
          checked |-> Append(seen, ps[i]), ret |-> <<>>, err |-> NotAValidChoice(ps[i])]
    ELSE ValidateFrom(self, ps, i + 1, Append(seen, ps[i]))

\* convert with the wildcard test not guarded by self.allow_wildcard.
CcsConvert_WildcardUnguarded(self, v) ==
    IF Falsy(v)
    THEN [pc |-> "returned", branch |-> "empty", parts |-> <<>>,
          checked |-> <<>>, ret |-> <<>>, err |-> NoErr]
    ELSE LET ps == IF ~IsList(v) THEN StrippedParts(v.s) ELSE v.items
         IN IF AnyWildcard(ps)
            THEN [pc |-> "returned", branch |-> "wildcard", parts |-> ps,
                  checked |-> <<>>, ret |-> self.choices, err |-> NoErr]
            ELSE ValidateFrom(self, ps, 1, <<>>)

\* ChoiceCommaSeparated.convert as a function of the object and the value.
CcsConvert(self, v) ==
    IF Falsy(v)
    THEN [pc |-> "returned", branch |-> "empty", parts |-> <<>>,
          checked |-> <<>>, ret |-> <<>>, err |-> NoErr]
    ELSE LET ps == IF ~IsList(v) THEN StrippedParts(v.s) ELSE v.items
         IN IF self.allow_wildcard /\ AnyWildcard(ps)
            THEN [pc |-> "returned", branch |-> "wildcard", parts |-> ps,
                  checked |-> <<>>, ret |-> self.choices, err |-> NoErr]
            ELSE ValidateFrom(self, ps, 1, <<>>)

ChoiceConvert ==
    /\ conv = "choice"
    /\ pc = "ready"
    /\ \E v \in CommaValues :
          LET o == CcsConvert(obj, v)
          IN /\ value' = v
             /\ pc' = o.pc
             /\ branch' = o.branch
             /\ parts' = o.parts
             /\ checked' = o.checked
             /\ ret' = o.ret
             /\ err' = o.err
    /\ UNCHANGED <<conv, kwargs, obj>>
    /\ UNCHANGED <<iterVars, fileVars>>

\* ------------------------------------------------------ ListCommaSeparated

\* ListCommaSeparated.__init__: reads unique with default True and hands
\* kwargs, the unique key still in it, to super().__init__.
LcsAttrs(kw) ==
    [choices |-> <<>>, allow_wildcard |-> TRUE, case_sensitive |-> TRUE,
     unique |-> KwGet(kw, "unique", TRUE)]

LcsLeftover(kw) == kw

LcsInit ==
    /\ conv = "list"
    /\ pc = "new"
    /\ IF SuperInitOk(LcsLeftover(kwargs))
       THEN /\ obj' = LcsAttrs(kwargs)
            /\ pc' = "ready"
            /\ err' = NoErr
       ELSE /\ obj' = NoObj
            /\ pc' = "init_raised"
            /\ err' = TypeError
    /\ UNCHANGED <<conv, kwargs, value, branch, parts, checked, ret>>
    /\ UNCHANGED <<iterVars, fileVars>>

\* param_type.unique = False, set on the constructed object by the caller.
LcsSetUnique ==
    /\ conv = "list"
    /\ pc = "ready"
    /\ \E b \in BOOLEAN :
          /\ b # obj.unique
          /\ obj' = [obj EXCEPT !.unique = b]
    /\ UNCHANGED <<conv, kwargs, value, pc, branch, parts, checked, ret, err>>
    /\ UNCHANGED <<iterVars, fileVars>>

SeqRange(l) == {l[i] : i \in 1..Len(l)}

\* list(set(lista)): each element once, in an order the build chooses.
Orderings(S) ==
    {f \in [1..Cardinality(S) -> S] : \A x \in S : \E i \in 1..Cardinality(S) : f[i] = x}

\* ListCommaSeparated.convert: the lists it can return for the value.
LcsLista(v) == IF ~IsList(v) THEN StrippedParts(v.s) ELSE v.items

\* A convert that skips list(set(lista)).
LcsConvert_NoDedup(self, v) ==
    IF Falsy(v) THEN {<<>>} ELSE {LcsLista(v)}

LcsConvert(self, v) ==
    IF Falsy(v) THEN {<<>>}
    ELSE IF self.unique THEN Orderings(SeqRange(LcsLista(v)))
    ELSE {LcsLista(v)}

ListConvert ==
    /\ conv = "list"
    /\ pc = "ready"
    /\ \E v \in CommaValues :
          /\ value' = v
          /\ parts' = IF Falsy(v) THEN <<>> ELSE LcsLista(v)
          /\ branch' = IF Falsy(v) THEN "empty" ELSE "list"
          /\ ret' \in LcsConvert(obj, v)
          /\ pc' = "returned"
    /\ UNCHANGED <<conv, kwargs, obj, checked, err>>
    /\ UNCHANGED <<iterVars, fileVars>>

\* -------------------------------------------------- TypeConvertingIterator

\* The elements sources hold: strings int() converts, and one it rejects.
Elems == {<<"1">>, <<"2">>, <<"x">>}

RECURSIVE SrcsUpTo(_)
SrcsUpTo(n) ==
    IF n = 0 THEN {<<>>}
    ELSE LET shorter == SrcsUpTo(n - 1)
         IN shorter \cup {Append(l, e) : l \in {t \in shorter : Len(t) = n - 1}, e \in Elems}

Digits == {"1", "2"}

DigitVal(c) == IF c = "1" THEN 1 ELSE 2

\* int(e) raises ValueError on a string that is no number; whitespace
\* around the digits, a line's line feed included, is ignored.
Convertible(e) ==
    LET t == strip(e)
    IN t # <<>> /\ \A k \in 1..Len(t) : t[k] \in Digits

RECURSIVE DecimalOf(_)
DecimalOf(t) ==
    IF t = <<>> THEN 0
    ELSE 10 * DecimalOf(SubSeq(t, 1, Len(t) - 1)) + DigitVal(t[Len(t)])

IntOf(e) == DecimalOf(strip(e))

\* conversion_function(e), for a function that accepts e.
Converted(f, e) == IF f = "none" THEN e ELSE IntOf(e)

\* next() on one branch of itertools.tee: an element another branch already
\* fetched is served from the shared buffer, otherwise the underlying
\* iterator is advanced; StopIteration when it has nothing left.
TeeNext(s, fetched, pos) ==
    IF pos < fetched
    THEN [stop |-> FALSE, item |-> s[pos + 1], pos |-> pos + 1, fetched |-> fetched]
    ELSE IF fetched < Len(s)
    THEN [stop |-> FALSE, item |-> s[fetched + 1], pos |-> pos + 1, fetched |-> fetched + 1]
    ELSE [stop |-> TRUE, item |-> "none", pos |-> pos, fetched |-> fetched]

\* A check that pulls the first element from self.iterator itself.
CheckConvertibility_NoTee(s, f) ==
    LET n == TeeNext(s, 0, 0)
    IN IF n.stop
       THEN [tpc |-> "ctor_raised", terr |-> "StopIteration", srcPos |-> n.fetched,
             teePos |-> n.pos, iterPos |-> n.pos, applied |-> <<>>]
       ELSE IF f # "none" /\ ~Convertible(n.item)
       THEN [tpc |-> "ctor_raised", terr |-> "ValueError", srcPos |-> n.fetched,
             teePos |-> n.pos, iterPos |-> n.pos, applied |-> <<n.item>>]
       ELSE [tpc |-> "ready", terr |-> "none", srcPos |-> n.fetched,
             teePos |-> n.pos, iterPos |-> n.pos,
             applied |-> IF f # "none" THEN <<n.item>> ELSE <<>>]

\* A check that is skipped when there is no conversion function.
CheckConvertibility_OnlyWithFunction(s, f) ==
    IF f = "none"
    THEN [tpc |-> "ready", terr |-> "none", srcPos |-> 0,
          teePos |-> 0, iterPos |-> 0, applied |-> <<>>]
    ELSE LET n == TeeNext(s, 0, 0)
         IN IF n.stop
            THEN [tpc |-> "ctor_raised", terr |-> "StopIteration", srcPos |-> n.fetched,
                  teePos |-> n.pos, iterPos |-> 0, applied |-> <<>>]
            ELSE IF ~Convertible(n.item)
            THEN [tpc |-> "ctor_raised", terr |-> "ValueError", srcPos |-> n.fetched,
                  teePos |-> n.pos, iterPos |-> 0, applied |-> <<n.item>>]
            ELSE [tpc |-> "ready", terr |-> "none", srcPos |-> n.fetched,
                  teePos |-> n.pos, iterPos |-> 0, applied |-> <<n.item>>]

\* A check that runs the conversion function over the whole source.
CheckConvertibility_WholeSource(s, f) ==
    LET bad == {k \in 1..Len(s) : f # "none" /\ ~Convertible(s[k])}
        upto == IF bad = {} THEN Len(s) ELSE CHOOSE k \in bad : \A j \in bad : k <= j
    IN IF s = <<>>
       THEN [tpc |-> "ctor_raised", terr |-> "StopIteration", srcPos |-> 0,
             teePos |-> 0, iterPos |-> 0, applied |-> <<>>]
       ELSE [tpc |-> IF bad = {} THEN "ready" ELSE "ctor_raised",
             terr |-> IF bad = {} THEN "none" ELSE "ValueError",
             srcPos |-> upto, teePos |-> upto, iterPos |-> 0,
             applied |-> IF f # "none" THEN SubSeq(s, 1, upto) ELSE <<>>]

\* _check_convertibility: tee the source, pull the first element from
\* tee_iterator and call the conversion function on it; StopIteration and the
\* function's own exception leave the constructor.
CheckConvertibility(s, f) ==
    LET n == TeeNext(s, 0, 0)
    IN IF n.stop
       THEN [tpc |-> "ctor_raised", terr |-> "StopIteration", srcPos |-> n.fetched,
             teePos |-> n.pos, iterPos |-> 0, applied |-> <<>>]
       ELSE IF f # "none" /\ ~Convertible(n.item)
       THEN [tpc |-> "ctor_raised", terr |-> "ValueError", srcPos |-> n.fetched,
             teePos |-> n.pos, iterPos |-> 0, applied |-> <<n.item>>]
       ELSE [tpc |-> "ready", terr |-> "none", srcPos |-> n.fetched,
             teePos |-> n.pos, iterPos |-> 0,
             applied |-> IF f # "none" THEN <<n.item>> ELSE <<>>]

\* TypeConvertingIterator.__init__
TciInit ==
    /\ tpc = "new"
    /\ LET c == CheckConvertibility(src, fn)
       IN /\ tpc' = c.tpc
          /\ terr' = c.terr
          /\ srcPos' = c.srcPos
          /\ teePos' = c.teePos
          /\ iterPos' = c.iterPos
          /\ applied' = c.applied
    /\ UNCHANGED <<src, fn, out>>
    /\ UNCHANGED <<commaVars, fileVars>>

\* TypeConvertingIterator.__next__: the next element of self.iterator,
\* through the conversion function when there is one.
TciNext ==
    /\ tpc = "ready"
    /\ LET n == TeeNext(src, srcPos, iterPos)
       IN /\ srcPos' = n.fetched
          /\ iterPos' = n.pos
          /\ IF n.stop
             THEN /\ tpc' = "exhausted"
                  /\ terr' = "StopIteration"
                  /\ UNCHANGED <<applied, out>>
             ELSE /\ tpc' = "ready"
                  /\ applied' = IF fn # "none" THEN Append(applied, n.item) ELSE applied
                  /\ IF fn # "none" /\ ~Convertible(n.item)
                     THEN /\ terr' = "ValueError"
                          /\ out' = Append(out, [raised |-> TRUE, val |-> Converted("none", n.item)])
                     ELSE /\ terr' = "none"
                          /\ out' = Append(out, [raised |-> FALSE, val |-> Converted(fn, n.item)])
    /\ UNCHANGED <<src, fn, teePos>>
    /\ UNCHANGED <<commaVars, fileVars>>

\* ------------------------------------------------ files, URLs and stdin

\* Tokens and texts are sequences of characters; "NL" is the line feed and
\* "CR" the carriage return.
Dash == <<"-">>
UrlToken == <<"h", "t", "t", "p", ":", "/", "/", "u">>
DataTxt == <<"d", ".", "t">>
EmptyTxt == <<"e", ".", "t">>
Hello == <<"h", "i">>
Num == <<"1", "2">>
TwoLines == <<"x", "NL", "y">>
CrText == <<"x", "CR", "NL", "y">>

\* The tokens the command line hands to a file converter.
Tokens == {Dash, UrlToken, DataTxt, EmptyTxt, Hello, <<>>, Num, TwoLines, CrText}

\* validators.url(value): an absolute http locator with a host.
IsUrl(v) == Len(v) > 7 /\ SubSeq(v, 1, 7) = <<"h", "t", "t", "p", ":", "/", "/">>

\* The paths that may exist when the command starts, and what they hold.
UserPaths == {DataTxt, UrlToken, EmptyTxt}

FileText(path) ==
    IF path = DataTxt THEN <<"1", "NL", "x", "NL">>
    ELSE IF path = EmptyTxt THEN <<>>
    ELSE <<"y">>

\* The modes a converter is built with: text read, binary read, write.
Modes == {"r", "rb", "w"}

\* "r" in self.mode
ReadMode(m) == m \in {"r", "rb"}

\* The response bodies a server sends, as bytes; C3 A9 is one character in
\* UTF-8 and C3 alone is no valid UTF-8.
Bodies ==
    { <<>>, <<"x">>, <<"x", "NL">>, <<"x", "NL", "y">>, <<"x", "CR", "NL", "y">>,
      <<"C3", "A9">>, <<"C3">> }

NoGet == [kind |-> "none", status |-> 0, content |-> <<>>]

\* What requests.get can do: answer with a status and a body, or raise.
GetOutcomes ==
    {[kind |-> "response", status |-> 200, content |-> b] : b \in Bodies}
        \cup {[kind |-> "response", status |-> st, content |-> <<"x">>] : st \in {404, 500}}
        \cup {[kind |-> "exception", status |-> 0, content |-> <<>>]}

\* requests.Response.ok: no 4xx or 5xx status.
ROk(g) == g.status < 400

\* bytes.decode('utf-8')
RECURSIVE Utf8Decode(_)
Utf8Decode(b) ==
    IF b = <<>> THEN [ok |-> TRUE, text |-> <<>>]
    ELSE IF b[1] = "C3"
    THEN IF Len(b) >= 2 /\ b[2] = "A9"
         THEN LET rest == Utf8Decode(SubSeq(b, 3, Len(b)))
              IN [ok |-> rest.ok, text |-> <<"e'">> \o rest.text]
         ELSE [ok |-> FALSE, text |-> <<>>]
    ELSE IF b[1] = "A9" THEN [ok |-> FALSE, text |-> <<>>]
    ELSE LET rest == Utf8Decode(Tail(b))
         IN [ok |-> rest.ok, text |-> <<b[1]>> \o rest.text]

\* str.splitlines(): the lines without their line ends; a line ends at a
\* line feed, at a carriage return or at the two in a row, and a trailing
\* line end opens no further line.
RECURSIVE SplitLinesFrom(_, _, _, _)
SplitLinesFrom(t, i, cur, acc) ==
    IF i > Len(t) THEN (IF cur # <<>> THEN Append(acc, cur) ELSE acc)
    ELSE IF t[i] = "CR" /\ i < Len(t) /\ t[i + 1] = "NL"
    THEN SplitLinesFrom(t, i + 2, <<>>, Append(acc, cur))
    ELSE IF t[i] \in {"NL", "CR"} THEN SplitLinesFrom(t, i + 1, <<>>, Append(acc, cur))
    ELSE SplitLinesFrom(t, i + 1, Append(cur, t[i]), acc)

splitlines(t) == SplitLinesFrom(t, 1, <<>>, <<>>)

\* iter(f) over a text file: the lines, each with its line feed.
RECURSIVE FileLinesFrom(_, _, _, _)
FileLinesFrom(t, i, cur, acc) ==
    IF i > Len(t) THEN (IF cur # <<>> THEN Append(acc, cur) ELSE acc)
    ELSE IF t[i] = "NL" THEN FileLinesFrom(t, i + 1, <<>>, Append(acc, Append(cur, "NL")))
    ELSE FileLinesFrom(t, i + 1, Append(cur, t[i]), acc)

FileLines(t) == FileLinesFrom(t, 1, <<>>, <<>>)

\* Returned values.
NoRet == [kind |-> "none", origin |-> "none", items |-> <<>>, path |-> <<>>, tmp |-> 0]
IterOver(origin, items) ==
    [kind |-> "iter", origin |-> origin, items |-> items, path |-> <<>>, tmp |-> 0]
StdinStream == [kind |-> "stdin", origin |-> "stdin", items |-> <<>>, path |-> <<>>, tmp |-> 0]
StdoutStream ==
    [kind |-> "stdout", origin |-> "stdout", items |-> <<>>, path |-> <<>>, tmp |-> 0]
Handle(path, t) ==
    [kind |-> "handle", origin |-> IF t = 0 THEN "path" ELSE "tmp", items |-> <<>>,
     path |-> path, tmp |-> t]

\* Standard input with nothing taken from it yet.
FreshStdin == [taken |-> 0, eof |-> FALSE]

\* No next() on a returned stream and no read() on a returned handle yet.
NoPull == [done |-> FALSE, from |-> "none", raised |-> FALSE, item |-> <<>>]
NoReadback == [done |-> FALSE, ok |-> FALSE, data |-> <<>>]

\* Raised errors: self.fail raises click.BadParameter with the message.
NoFErr == [exc |-> "none", msg |-> "none", url |-> <<>>, status |-> 0, cause |-> "none"]
BadParameter(msg, url, cause) ==
    [exc |-> "BadParameter", msg |-> msg, url |-> url, status |-> 0, cause |-> cause]
NonReadMode == BadParameter("stream cannot be opened in non-read mode", <<>>, "none")
UrlNonReadMode(v) == BadParameter("Url cannot be opened in non-read mode", v, "none")
StatusError(v) == BadParameter("Url does not return 200 OK", v, "none")
FetchError(v, cause) == BadParameter("Error while fetching", v, cause)
NoSuchFile(v) == BadParameter("No such file or directory", v, "none")
UnicodeDecodeError ==
    [exc |-> "UnicodeDecodeError", msg |-> "invalid utf-8", url |-> <<>>, status |-> 0,
     cause |-> "none"]

\* The body of the try statement (lines 265-267, 380-382): requests.get
\* raises, or self.fail raises on a response that is not ok.
TryGet(v, g) ==
    IF g.kind = "exception" THEN [raised |-> TRUE, e |-> "RequestException"]
    ELSE IF ~ROk(g) THEN [raised |-> TRUE, e |-> StatusError(v).msg]
    ELSE [raised |-> FALSE, e |-> "none"]

\* The try statement with its handler (lines 264-269, 379-384): except
\* Exception catches whatever the body raised, the BadParameter of self.fail
\* included, and fails with the fetch error around it.
Fetch(v, g) ==
    LET t == TryGet(v, g)
    IN IF t.raised
       THEN [raised |-> TRUE, err |-> FetchError(v, t.e)]
       ELSE [raised |-> FALSE, err |-> NoFErr]

\* How a convert call ends: the value returned or the error raised, how
\* often requests.get was called, whether a temporary file was created,
\* whether the standard-input stream was obtained and how many next() calls
\* were made on it.
Returned(br, r) ==
    [pc |-> "returned", branch |-> br, ret |-> r, err |-> NoFErr, got |-> 0,
     newtmp |-> FALSE, opened |-> FALSE, read |-> 0]
Raised(br, e) ==
    [pc |-> "raised", branch |-> br, ret |-> NoRet, err |-> e, got |-> 0,
     newtmp |-> FALSE, opened |-> FALSE, read |-> 0]
\* A fetch that asks a second time.
AfterGet_Retry(o) == [o EXCEPT !.got = @ + 2]

AfterGet(o) == [o EXCEPT !.got = @ + 1]
WithTemp(o) == [o EXCEPT !.newtmp = TRUE]
StdinOpened(o) == [o EXCEPT !.opened = TRUE]

\* click.File.convert on a path: "-" is the standard stream of the mode,
\* input when reading and output when writing; a path opened for reading
\* must exist.
ClickFileConvert(v, m, exist) ==
    IF v = Dash
    THEN IF ReadMode(m) THEN StdinOpened(Returned("super", StdinStream))
         ELSE Returned("super", StdoutStream)
    ELSE IF ReadMode(m) /\ ~exist THEN Raised("super", NoSuchFile(v))
    ELSE Returned("super", Handle(v, 0))

\* ---------------------------------------------- FileUrlIterStringParamType

\* The rules with the URL test ahead of the path test.
FuiConvert_UrlFirst(m, v, exist, g) ==
    IF ~ReadMode(m) THEN Raised("non_read", NonReadMode)
    ELSE IF IsUrl(v)
    THEN LET f == Fetch(v, g)
         IN IF f.raised THEN AfterGet(Raised("url", f.err))
            ELSE LET d == Utf8Decode(g.content)
                 IN IF ~d.ok THEN AfterGet(Raised("url", UnicodeDecodeError))
                    ELSE AfterGet(Returned("url", IterOver("url", splitlines(d.text))))
    ELSE IF exist THEN Returned("file", IterOver("file", FileLines(FileText(v))))
    ELSE IF v = Dash THEN StdinOpened(Returned("stdin", StdinStream))
    ELSE Returned("literal", IterOver("literal", <<v>>))

\* FileUrlIterStringParamType.convert, given what requests.get does when
\* it is called.
FuiConvert(m, v, exist, g) ==
    IF ~ReadMode(m) THEN Raised("non_read", NonReadMode)
    ELSE IF exist THEN Returned("file", IterOver("file", FileLines(FileText(v))))
    ELSE IF IsUrl(v)
    THEN LET f == Fetch(v, g)
         IN IF f.raised THEN AfterGet(Raised("url", f.err))
            ELSE LET d == Utf8Decode(g.content)
                 IN IF ~d.ok THEN AfterGet(Raised("url", UnicodeDecodeError))
                    ELSE AfterGet(Returned("url", IterOver("url", splitlines(d.text))))
    ELSE IF v = Dash THEN StdinOpened(Returned("stdin", StdinStream))
    ELSE Returned("literal", IterOver("literal", <<v>>))

\* requests.get answers g exactly when the call reaches it.
GetMatches(o, g) == o.got > 0 <=> g # NoGet

\* The requests.get calls of one convert call, added to those made so far.
GetsAfter(done, v, o) == done \o [i \in 1..o.got |-> v]

\* The record of a convert call on a string token.
CallOf(v, c, o, g) ==
    [token |-> v, value |-> StrValue(v), ctx |-> c, pc |-> o.pc, branch |-> o.branch,
     ret |-> o.ret, err |-> o.err, get |-> g, ngets |-> o.got, opened |-> o.opened,
     read |-> o.read]

\* A conversion that raises ends the parsing of the command line.
PhaseAfter(o) == IF o.pc = "raised" THEN "finished" ELSE "parsing"

FileUrlIterConvert ==
    /\ fconv = "FileUrlIterString"
    /\ phase = "parsing"
    /\ ncalls < MaxCalls
    /\ \E v \in Tokens, c \in BOOLEAN, g \in GetOutcomes \cup {NoGet} :
          LET o == FuiConvert(mode, v, v \in fs, g)
          IN /\ GetMatches(o, g)
             /\ call' = CallOf(v, c, o, g)
             /\ gets' = GetsAfter(gets, v, o)
             /\ phase' = PhaseAfter(o)
    /\ ncalls' = ncalls + 1
    /\ pull' = NoPull
    /\ readback' = NoReadback
    /\ UNCHANGED <<fconv, mode, fs, tmp, onClose, ftype, stdin>>
    /\ UNCHANGED <<commaVars, iterVars>>

\* -------------------------------------------------- FileIterStringParamType

\* The lines standard input can hold, each with its line feed.
StdinLines == {<<"1", "NL">>, <<"x", "NL">>}

\* What the next read of standard input can give: a line, or nothing at its
\* end.
StdinHeads(st) ==
    {<<>>} \cup (IF ~st.eof /\ st.taken < MaxStdin THEN {<<l>> : l \in StdinLines} ELSE {})

\* Standard input after n next() calls that were given the lines in s.
StdinAfter(st, n, s) ==
    IF n = 0 THEN st
    ELSE [taken |-> st.taken + Len(s), eof |-> st.eof \/ Len(s) < n]

\* self.type as __init__ leaves it: the type keyword, None without it.
FisTypes == {"none", "int"}

\* "%s" % e: the text an exception carries; StopIteration() carries none.
ExcText(e) ==
    IF e = "StopIteration" THEN ""
    ELSE IF e = "ValueError" THEN "invalid literal for int() with base 10"
    ELSE e

ConversionError(cause) == BadParameter("Error while converting iterator", <<>>, cause)

\* A TypeConvertingIterator over a resolved iterator; items are what the
\* caller can pull without the underlying iterator being advanced.
Tci(r, items) ==
    [kind |-> "tci", origin |-> r.origin, items |-> items, path |-> <<>>, tmp |-> 0]

\* A resolution that never looks for a file.
FisResolve_NoFile(v, exist) ==
    IF v = Dash THEN StdinOpened(Returned("stdin", StdinStream))
    ELSE Returned("literal", IterOver("literal", <<v>>))

\* Lines 324-334: the iterator the token resolves to.
FisResolve(v, exist) ==
    IF exist THEN Returned("file", IterOver("file", FileLines(FileText(v))))
    ELSE IF v = Dash THEN StdinOpened(Returned("stdin", StdinStream))
    ELSE Returned("literal", IterOver("literal", <<v>>))

\* A wrapping that leaves the first element to the caller's first pull.
FisWrap_Lazy(o, f, s) ==
    IF f = "none" THEN o ELSE [o EXCEPT !.ret = Tci(o.ret, <<>>)]

\* Lines 335-338: without a type output_iterator is returned as it is; with
\* one the TypeConvertingIterator constructor checks the first element of
\* s, what the iterator has to give, and except Exception turns whatever
\* the constructor raises into the conversion error.
FisWrap(o, f, s) ==
    IF f = "none" THEN o
    ELSE LET c == CheckConvertibility(s, f)
             nexts == IF o.ret.kind # "stdin" THEN 0
                      ELSE IF c.terr = "StopIteration" THEN c.srcPos + 1
                      ELSE c.srcPos
         IN IF c.tpc = "ctor_raised"
            THEN [Raised("wrap", ConversionError(ExcText(c.terr)))
                    EXCEPT !.opened = o.opened, !.read = nexts]
            ELSE [o EXCEPT !.ret = Tci(o.ret, IF o.ret.kind = "stdin"
                                              THEN SubSeq(s, 1, c.srcPos) ELSE s),
                           !.read = nexts]

\* A convert that looks for the file before it looks at the mode.
FisConvert_ExistsFirst(m, v, exist, f, s) ==
    IF exist THEN FisWrap(FisResolve(v, exist), f, FisResolve(v, exist).ret.items)
    ELSE IF ~ReadMode(m) THEN Raised("non_read", NonReadMode)
    ELSE LET o == FisResolve(v, exist)
         IN FisWrap(o, f, IF o.ret.kind = "stdin" THEN s ELSE o.ret.items)

\* FileIterStringParamType.convert, s being what standard input gives when
\* it is read.
FisConvert(m, v, exist, f, s) ==
    IF ~ReadMode(m) THEN Raised("non_read", NonReadMode)
    ELSE LET o == FisResolve(v, exist)
         IN FisWrap(o, f, IF o.ret.kind = "stdin" THEN s ELSE o.ret.items)

FileIterConvert ==
    /\ fconv = "FileIterString"
    /\ phase = "parsing"
    /\ ncalls < MaxCalls
    /\ \E v \in Tokens, c \in BOOLEAN, s \in StdinHeads(stdin) :
          LET o == FisConvert(mode, v, v \in fs, ftype, s)
          IN /\ o.read = 0 => s = <<>>
             /\ call' = CallOf(v, c, o, NoGet)
             /\ stdin' = StdinAfter(stdin, o.read, s)
             /\ phase' = PhaseAfter(o)
    /\ ncalls' = ncalls + 1
    /\ pull' = NoPull
    /\ readback' = NoReadback
    /\ UNCHANGED <<fconv, mode, fs, tmp, onClose, gets, ftype>>
    /\ UNCHANGED <<commaVars, iterVars>>

\* ------------------------------------------------------ temporary files

\* str.encode('utf-8'), also what a text-mode write puts on the disk (no
\* line-end translation on a POSIX system).
RECURSIVE Utf8Encode(_)
Utf8Encode(t) ==
    IF t = <<>> THEN <<>>
    ELSE (IF t[1] = "e'" THEN <<"C3", "A9">> ELSE <<t[1]>>) \o Utf8Encode(Tail(t))

\* A buffered file object: write() leaves the data in the buffer, flush()
\* moves the buffer to the disk.
EmptyTemp == [buffer |-> <<>>, disk |-> <<>>]
TempWrite(f, data) == [f EXCEPT !.buffer = @ \o data]
TempFlush(f) == [buffer |-> <<>>, disk |-> f.disk \o f.buffer]

\* A temporary file whose data never leaves the buffer.
NewTemp_Unflushed(content) ==
    [content |-> TempWrite(EmptyTemp, content).disk, exists |-> TRUE, unlinks |-> 0,
     attempts |-> 0, escaped |-> FALSE]

\* tempfile.NamedTemporaryFile(delete=False), written and flushed: a new
\* file that stays on disk when the with statement closes it; content is
\* what the disk holds when super().convert opens the file.
NewTemp(content) ==
    [content |-> TempFlush(TempWrite(EmptyTemp, content)).disk, exists |-> TRUE,
     unlinks |-> 0, attempts |-> 0, escaped |-> FALSE]

\* A text-mode read hands out every line end, CR LF and CR included, as LF.
RECURSIVE UniversalNewlines(_)
UniversalNewlines(t) ==
    IF t = <<>> THEN <<>>
    ELSE IF t[1] = "CR"
    THEN <<"NL">> \o UniversalNewlines(IF Len(t) >= 2 /\ t[2] = "NL"
                                         THEN SubSeq(t, 3, Len(t)) ELSE Tail(t))
    ELSE <<t[1]>> \o UniversalNewlines(Tail(t))

\* read() on the handle super().convert opened with mode m over a file that
\* holds the bytes b: the bytes in binary mode, the decoded text in text mode.
ReadAll(m, b) ==
    IF m = "rb" THEN [done |-> TRUE, ok |-> TRUE, data |-> b]
    ELSE LET d == Utf8Decode(b)
         IN IF d.ok THEN [done |-> TRUE, ok |-> TRUE, data |-> UniversalNewlines(d.text)]
            ELSE [done |-> TRUE, ok |-> FALSE, data |-> <<>>]

\* if ctx is not None: ctx.call_on_close(cleanup)
Registered(c, cbs, t) == IF c THEN Append(cbs, t) ELSE cbs

\* os.unlink(path): the file is removed, or OSError is raised when no file
\* has that name any more.
Unlink(files, t) ==
    IF files[t].exists
    THEN [raised |-> FALSE,
          files |-> [files EXCEPT ![t].exists = FALSE,
                                  ![t].unlinks = @ + 1,
                                  ![t].attempts = @ + 1]]
    ELSE [raised |-> TRUE, files |-> [files EXCEPT ![t].attempts = @ + 1]]

\* A cleanup without the except clause: the OSError leaves the callback.
Cleanup_Propagates(files, t) ==
    LET u == Unlink(files, t)
    IN [u.files EXCEPT ![t].escaped = u.raised]

\* cleanup(): try os.unlink(tmpfile.name), except OSError: pass. Nothing
\* leaves the callback, whether the unlink raised or not.
Cleanup(files, t) ==
    LET u == Unlink(files, t)
    IN [u.files EXCEPT ![t].escaped = FALSE]

\* Context.close(): the registered callbacks, last registered first.
RECURSIVE RunCallbacks(_, _)
RunCallbacks(files, cbs) ==
    IF cbs = <<>> THEN files
    ELSE RunCallbacks(Cleanup(files, cbs[Len(cbs)]), SubSeq(cbs, 1, Len(cbs) - 1))

\* ------------------------------------------------------ FileOrUrlParamType

\* FileOrUrlParamType.convert, given what requests.get does when it is
\* called; t names the temporary file the call creates when it creates one.
FouConvert(m, v, exist, g, t) ==
    IF IsUrl(v)
    THEN IF ~ReadMode(m) THEN Raised("non_read", UrlNonReadMode(v))
         ELSE LET f == Fetch(v, g)
              IN IF f.raised THEN AfterGet(Raised("url", f.err))
                 ELSE AfterGet(WithTemp(Returned("url", Handle(<<>>, t))))
    ELSE ClickFileConvert(v, m, exist)

FileOrUrlConvert ==
    /\ fconv = "FileOrUrl"
    /\ phase = "parsing"
    /\ ncalls < MaxCalls
    /\ \E v \in Tokens, c \in BOOLEAN, g \in GetOutcomes \cup {NoGet} :
          LET t == Len(tmp) + 1
              o == FouConvert(mode, v, v \in fs, g, t)
          IN /\ GetMatches(o, g)
             /\ call' = CallOf(v, c, o, g)
             /\ gets' = GetsAfter(gets, v, o)
             /\ IF o.newtmp
                THEN /\ tmp' = Append(tmp, NewTemp(g.content))
                     /\ onClose' = Registered(c, onClose, t)
                ELSE UNCHANGED <<tmp, onClose>>
             /\ phase' = PhaseAfter(o)
    /\ ncalls' = ncalls + 1
    /\ pull' = NoPull
    /\ readback' = NoReadback
    /\ UNCHANGED <<fconv, mode, fs, ftype, stdin>>
    /\ UNCHANGED <<commaVars, iterVars>>

\* --------------------------------------------------- StringOrFileParamType

\* A convert that takes every token but "-" for literal text.
SofConvert_NoExistsTest(m, v, exist, t) ==
    IF v # Dash
    THEN WithTemp(Returned("literal", Handle(<<>>, t)))
    ELSE ClickFileConvert(v, m, exist)

\* StringOrFileParamType.convert; t names the temporary file the call
\* creates when it creates one.
SofConvert(m, v, exist, t) ==
    IF v # Dash /\ ~exist
    THEN WithTemp(Returned("literal", Handle(<<>>, t)))
    ELSE ClickFileConvert(v, m, exist)

StringOrFileConvert ==
    /\ fconv = "StringOrFile"
    /\ phase = "parsing"
    /\ ncalls < MaxCalls
    /\ \E v \in Tokens, c \in BOOLEAN :
          LET t == Len(tmp) + 1
              o == SofConvert(mode, v, v \in fs, t)
          IN /\ call' = CallOf(v, c, o, NoGet)
             /\ IF o.newtmp
                THEN /\ tmp' = Append(tmp, NewTemp(Utf8Encode(v)))
                     /\ onClose' = Registered(c, onClose, t)
                ELSE UNCHANGED <<tmp, onClose>>
             /\ phase' = PhaseAfter(o)
    /\ ncalls' = ncalls + 1
    /\ pull' = NoPull
    /\ readback' = NoReadback
    /\ UNCHANGED <<fconv, mode, fs, gets, ftype, stdin>>
    /\ UNCHANGED <<commaVars, iterVars>>

\* ----------------------------------------- UrlOrListFromFileStdinParamType

\* A returned list.
ListOf(items) ==
    [kind |-> "list", origin |-> "list", items |-> items, path |-> <<>>, tmp |-> 0]

\* A convert without the URL test.
UolConvert_NoUrlTest(m, v, exist) == ClickFileConvert(v, m, exist)

\* UrlOrListFromFileStdinParamType.convert
UolConvert(m, v, exist) ==
    IF IsUrl(v) THEN Returned("url", ListOf(<<v>>))
    ELSE ClickFileConvert(v, m, exist)

UrlOrListConvert ==
    /\ fconv = "UrlOrListFromFileStdin"
    /\ phase = "parsing"
    /\ ncalls < MaxCalls
    /\ \E v \in Tokens, c \in BOOLEAN :
          LET o == UolConvert(mode, v, v \in fs)
          IN /\ call' = CallOf(v, c, o, NoGet)
             /\ phase' = PhaseAfter(o)
    /\ ncalls' = ncalls + 1
    /\ pull' = NoPull
    /\ readback' = NoReadback
    /\ UNCHANGED <<fconv, mode, fs, tmp, onClose, gets, ftype, stdin>>
    /\ UNCHANGED <<commaVars, iterVars>>

\* ---------------------------------------------- StringsListOrStdinParamType

\* Values that are no str: lists an earlier conversion produced, and None.
SlsLists == {<<>>, <<Dash>>, <<Hello, Dash>>}

SlsValues ==
    {StrValue(t) : t \in Tokens} \cup {ListValue(l) : l \in SlsLists} \cup {NoneValue}

\* return value: the value itself.
Unchanged(val) ==
    [kind |-> val.kind, origin |-> "value", items |-> val.items, path |-> <<>>, tmp |-> 0]

\* A convert that wraps whatever is not "-".
SlsConvert_WrapAll(val) ==
    IF val = StrValue(Dash) THEN StdinOpened(Returned("stdin", StdinStream))
    ELSE Returned("wrap", ListOf(<<val.s>>))

\* StringsListOrStdinParamType.convert
SlsConvert(val) ==
    IF val = StrValue(Dash) THEN StdinOpened(Returned("stdin", StdinStream))
    ELSE IF val.kind = "str" THEN Returned("wrap", ListOf(<<val.s>>))
    ELSE Returned("pass", Unchanged(val))

StringsListConvert ==
    /\ fconv = "StringsListOrStdin"
    /\ phase = "parsing"
    /\ ncalls < MaxCalls
    /\ \E val \in SlsValues, c \in BOOLEAN :
          LET o == SlsConvert(val)
          IN /\ call' = [CallOf(val.s, c, o, NoGet) EXCEPT !.value = val]
             /\ phase' = PhaseAfter(o)
    /\ ncalls' = ncalls + 1
    /\ pull' = NoPull
    /\ readback' = NoReadback
    /\ UNCHANGED <<fconv, mode, fs, tmp, onClose, gets, ftype, stdin>>
    /\ UNCHANGED <<commaVars, iterVars>>

\* ------------------------------------------------------ the command's run

\* What a pull hands to the caller: the line, through the conversion
\* function when the stream is a TypeConvertingIterator.
Pulled(from, f, line) ==
    [done |-> TRUE, from |-> from, raised |-> f # "none" /\ ~Convertible(line),
     item |-> line]

EndOfInput == [done |-> TRUE, from |-> "end", raised |-> TRUE, item |-> <<>>]

\* The command's body calls next() on the stream over standard input the
\* last call returned: the stream itself, or the TypeConvertingIterator on
\* it, which first hands out what its check left in the tee buffer.
CallerNext ==
    /\ phase = "parsing"
    /\ call.pc = "returned"
    /\ call.ret.origin = "stdin"
    /\ pull # EndOfInput
    /\ IF call.ret.kind = "tci" /\ call.ret.items # <<>>
       THEN /\ pull' = Pulled("buffer", ftype, Head(call.ret.items))
            /\ call' = [call EXCEPT !.ret.items = Tail(@)]
            /\ UNCHANGED stdin
       ELSE /\ \E s \in StdinHeads(stdin) :
                  /\ stdin' = StdinAfter(stdin, 1, s)
                  /\ pull' = IF s = <<>> THEN EndOfInput
                             ELSE Pulled("stdin", IF call.ret.kind = "tci" THEN ftype
                                                  ELSE "none", s[1])
            /\ UNCHANGED call
    /\ UNCHANGED <<fconv, mode, fs, phase, tmp, onClose, gets, ncalls, ftype, readback>>
    /\ UNCHANGED <<commaVars, iterVars>>

\* The command's body reads the handle the last call opened on a temporary
\* file.
ReadHandle ==
    /\ phase = "parsing"
    /\ call.pc = "returned"
    /\ call.ret.kind = "handle"
    /\ call.ret.tmp > 0
    /\ ReadMode(mode)
    /\ ~readback.done
    /\ readback' = ReadAll(mode, tmp[call.ret.tmp].content)
    /\ UNCHANGED <<fconv, mode, fs, phase, tmp, onClose, gets, ncalls, call, ftype, stdin,
                   pull>>
    /\ UNCHANGED <<commaVars, iterVars>>

\* The arguments are parsed and the command's body runs to its end.
CommandFinish ==
    /\ phase = "parsing"
    /\ phase' = "finished"
    /\ UNCHANGED <<fconv, mode, fs, tmp, onClose, gets, ncalls, call>>
    /\ UNCHANGED <<ftype, stdin, pull, readback>>
    /\ UNCHANGED <<commaVars, iterVars>>

\* Something other than the cleanup removes a temporary file before the
\* context closes: the command's body, or whatever tidies the temporary
\* directory. Nothing the converters or an open handle do depends on when
\* that happens, so the removal is taken once the body has run.
ExternalRemove ==
    /\ phase = "finished"
    /\ \E t \in 1..Len(tmp) :
          /\ tmp[t].exists
          /\ tmp' = [tmp EXCEPT ![t].exists = FALSE]
    /\ UNCHANGED <<fconv, mode, fs, phase, onClose, gets, ncalls, call, ftype, stdin, pull,
                   readback>>
    /\ UNCHANGED <<commaVars, iterVars>>

\* The command's context closes and runs what call_on_close registered.
ContextClose ==
    /\ phase = "finished"
    /\ phase' = "closed"
    /\ tmp' = RunCallbacks(tmp, onClose)
    /\ onClose' = <<>>
    /\ UNCHANGED <<fconv, mode, fs, gets, ncalls, call, ftype, stdin, pull, readback>>
    /\ UNCHANGED <<commaVars, iterVars>>

\* ----------------------------------------------------------- specification

IdleComma ==
    /\ conv = "none"
    /\ kwargs = <<>>
    /\ obj = NoObj
    /\ value = NoneValue
    /\ pc = "idle"
    /\ branch = "none"
    /\ parts = <<>>
    /\ checked = <<>>
    /\ ret = <<>>
    /\ err = NoErr

IdleIter ==
    /\ src = <<>>
    /\ fn = "none"
    /\ srcPos = 0
    /\ teePos = 0
    /\ iterPos = 0
    /\ applied = <<>>
    /\ out = <<>>
    /\ tpc = "idle"
    /\ terr = "none"

NoCall ==
    [token |-> <<>>, value |-> NoneValue, ctx |-> FALSE, pc |-> "none", branch |-> "none",
     ret |-> NoRet, err |-> NoFErr, get |-> NoGet, ngets |-> 0, opened |-> FALSE,
     read |-> 0]

IdleFile ==
    /\ fconv = "none"
    /\ mode = "r"
    /\ fs = {}
    /\ phase = "idle"
    /\ tmp = <<>>
    /\ onClose = <<>>
    /\ gets = <<>>
    /\ ncalls = 0
    /\ call = NoCall
    /\ ftype = "none"
    /\ stdin = FreshStdin
    /\ pull = NoPull
    /\ readback = NoReadback

InitComma ==
    /\ conv \in {"choice", "list"}
    /\ kwargs \in KwargsOver(KwKeys)
    /\ obj = NoObj
    /\ value = NoneValue
    /\ pc = "new"
    /\ branch = "none"
    /\ parts = <<>>
    /\ checked = <<>>
    /\ ret = <<>>
    /\ err = NoErr
    /\ IdleIter
    /\ IdleFile

NextComma == CcsInit \/ ChoiceConvert \/ LcsInit \/ LcsSetUnique \/ ListConvert

SpecComma == InitComma /\ [][NextComma]_vars

InitIter ==
    /\ src \in SrcsUpTo(MaxSrcLen)
    /\ fn \in {"none", "int"}
    /\ srcPos = 0
    /\ teePos = 0
    /\ iterPos = 0
    /\ applied = <<>>
    /\ out = <<>>
    /\ tpc = "new"
    /\ terr = "none"
    /\ IdleComma
    /\ IdleFile

NextIter == TciInit \/ TciNext

SpecIter == InitIter /\ [][NextIter]_vars

InitFile ==
    /\ fconv \in {"FileUrlIterString", "FileIterString", "FileOrUrl", "StringOrFile",
                  "UrlOrListFromFileStdin", "StringsListOrStdin"}
    /\ mode \in (IF fconv = "StringsListOrStdin" THEN {"none"} ELSE Modes)
    /\ fs \in SUBSET UserPaths
    /\ phase = "parsing"
    /\ tmp = <<>>
    /\ onClose = <<>>
    /\ gets = <<>>
    /\ ncalls = 0
    /\ call = NoCall
    /\ ftype \in (IF fconv = "FileIterString" THEN FisTypes ELSE {"none"})
    /\ stdin = FreshStdin
    /\ pull = NoPull
    /\ readback = NoReadback
    /\ IdleComma
    /\ IdleIter

NextFile ==
    \/ FileUrlIterConvert
    \/ FileIterConvert
    \/ FileOrUrlConvert
    \/ StringOrFileConvert
    \/ UrlOrListConvert
    \/ StringsListConvert
    \/ CallerNext
    \/ ReadHandle
    \/ CommandFinish
    \/ ExternalRemove
    \/ ContextClose

SpecFile == InitFile /\ [][NextFile]_vars


\* ------------------------------------------- claims: comma-separated lists

Done == pc \in {"returned", "raised"}

ChoiceDone == conv = "choice" /\ Done

ChoiceSet == {obj.choices[j] : j \in 1..Len(obj.choices)}

\* The part is one of the two wildcard spellings, compared exactly.
IsWildcardPart(p) == p = <<"*">> \/ p = <<"a", "l", "l">>

HasWildcardPart == \E i \in 1..Len(parts) : IsWildcardPart(parts[i])

\* The call went past the empty-input and wildcard returns.
NoWildcardApplies == ~Falsy(value) /\ ~(obj.allow_wildcard /\ HasWildcardPart)

\* The i-th tested part passed its test: the loop went on, or returned, after it.
Accepted(i) == ~(pc = "raised" /\ i = Len(checked))

\* Membership as the flag value selects it.
MatchesChoice(p) ==
    IF obj.case_sensitive
    THEN \E c \in ChoiceSet : lower(p) = lower(c)
    ELSE \E c \in ChoiceSet : p = c

C4_UniqueOptionAccepted ==
    (conv = "list" /\ pc # "new" /\ DOMAIN kwargs \subseteq {"unique"}) =>
        /\ pc # "init_raised"
        /\ (pc = "returned" /\ ~obj.unique /\ ~Falsy(value)) => ret = parts

\* C8: a part is a wildcard exactly when allow_wildcard is true (the
\* default): then any part equal to "*" or "all" makes convert return the
\* configured choices, in configured order, with no part validated; with
\* allow_wildcard false "*" and "all" are validated like any other part, so
\* "*" fails against choices that do not hold it.
C8_WildcardShortCircuit ==
    (ChoiceDone /\ ~Falsy(value)) =>
        /\ ("allow_wildcard" \notin DOMAIN kwargs) => obj.allow_wildcard
        /\ (obj.allow_wildcard /\ HasWildcardPart)
              => (pc = "returned" /\ ret = obj.choices /\ checked = <<>>)
        /\ (~obj.allow_wildcard \/ ~HasWildcardPart)
              => /\ checked # <<>>
                 /\ checked = SubSeq(parts, 1, Len(checked))
                 /\ \A i \in 1..Len(checked) : Accepted(i) <=> MatchesChoice(checked[i])
                 /\ pc = "returned" => ret = parts
        /\ (~obj.allow_wildcard /\ obj.choices = << <<"a">>, <<"l">> >>
                /\ value = StrValue(<<"*">>))
              => pc = "raised"

\* A wildcard beside a part that is no choice: the choices come back.
C8_Witness ==
    /\ ChoiceDone
    /\ obj.allow_wildcard
    /\ obj.choices = << <<"a">>, <<"l">> >>
    /\ value = StrValue(<<"A", "A", ",", "*">>)
    /\ pc = "returned"
    /\ ret = obj.choices

\* The first index of a part that is no choice (0 when every part is one).
FirstInvalid ==
    IF \E i \in 1..Len(parts) : ~MatchesChoice(parts[i])
    THEN CHOOSE i \in 1..Len(parts) :
            /\ ~MatchesChoice(parts[i])
            /\ \A j \in 1..(i - 1) : MatchesChoice(parts[j])
    ELSE 0

\* C9: when no wildcard applies and some part is no valid choice, convert
\* fails with the "not a valid choice" error naming the first invalid part in
\* input order, returns no list, and tests no part after that one.
C9_FailsOnFirstInvalid ==
    (ChoiceDone /\ NoWildcardApplies /\ FirstInvalid # 0) =>
        /\ pc = "raised"
        /\ err.kind = "BadParameter"
        /\ err.msg = "is not a valid choice"
        /\ err.val = parts[FirstInvalid]
        /\ ret = <<>>
        /\ checked = SubSeq(parts, 1, FirstInvalid)

\* Two invalid parts: the first one is named and the second is never tested.
C9_Witness ==
    /\ ChoiceDone
    /\ ~obj.allow_wildcard
    /\ obj.choices = << <<"a">>, <<"l">> >>
    /\ value = StrValue(<<"a", ",", "*", ",">>)
    /\ pc = "raised"
    /\ err.val = <<"*">>
    /\ checked = << <<"a">>, <<"*">> >>

\* s[i] is kept by the trimming: it is no whitespace, or the piece between
\* its neighbouring commas has a non-whitespace character on both sides of it.
InPiece(s, i, j) ==
    \A k \in (IF i < j THEN i ELSE j)..(IF i < j THEN j ELSE i) : s[k] # ","

Solid(s, j) == s[j] \notin Whitespace /\ s[j] # ","

Kept(s, i) ==
    \/ s[i] \notin Whitespace
    \/ /\ \E j \in 1..(i - 1) : Solid(s, j) /\ InPiece(s, j, i)
       /\ \E j \in (i + 1)..Len(s) : Solid(s, j) /\ InPiece(s, i, j)

RECURSIVE TrimmedFrom(_, _)
TrimmedFrom(s, i) ==
    IF i > Len(s) THEN <<>>
    ELSE (IF Kept(s, i) THEN <<s[i]>> ELSE <<>>) \o TrimmedFrom(s, i + 1)

\* The token with the padding of every comma-separated piece removed.
Trimmed(s) == TrimmedFrom(s, 1)

RECURSIVE Join(_)
Join(ps) ==
    IF ps = <<>> THEN <<>>
    ELSE IF Len(ps) = 1 THEN ps[1]
    ELSE ps[1] \o <<",">> \o Join(Tail(ps))

\* C10: for a non-empty string token both converters split on commas and
\* strip the padding of every part before validating or returning it; a
\* successful non-wildcard ChoiceCommaSeparated call returns exactly the
\* stripped parts, in input order and in their own case.
C10_SplitAndStrip ==
    (conv \in {"choice", "list"} /\ Done /\ value.kind = "str" /\ value.s # <<>>) =>
        /\ Join(parts) = Trimmed(value.s)
        /\ \A i \in 1..Len(parts) : \A k \in 1..Len(parts[i]) : parts[i][k] # ","
        /\ checked = SubSeq(parts, 1, Len(checked))
        /\ (conv = "choice" /\ pc = "returned" /\ NoWildcardApplies) => ret = parts
        /\ conv = "list" => SeqRange(ret) = SeqRange(parts)

\* A padded part in another case than the configured choice comes back
\* stripped and in its own case.
C10_Witness ==
    /\ ChoiceDone
    /\ obj.choices = << <<"a">>, <<"l">> >>
    /\ value = StrValue(<<" ", "A", ",", "l">>)
    /\ pc = "returned"
    /\ ret = << <<"A">>, <<"l">> >>

NoRepeats(l) == \A i, j \in 1..Len(l) : l[i] = l[j] => i = j

\* C11: with unique set (the default) ListCommaSeparated.convert returns a
\* list in which no element occurs twice and whose elements are exactly the
\* stripped parts of the token, or the elements of a pre-split list; the
\* order is left open.
C11_UniqueDeduplicates ==
    (conv = "list" /\ pc = "returned" /\ obj.unique) =>
        /\ NoRepeats(ret)
        /\ SeqRange(ret) = SeqRange(parts)
        /\ IsList(value) => SeqRange(ret) = SeqRange(value.items)

\* "a, a": two parts that are equal once stripped come back as one element.
C11_Witness ==
    /\ conv = "list"
    /\ pc = "returned"
    /\ obj.unique
    /\ value = StrValue(<<"a", ",", " ", "a">>)
    /\ parts = << <<"a">>, <<"a">> >>
    /\ ret = << <<"a">> >>

\* The empty string, the empty list and None.
EmptyInputs == {StrValue(<<>>), ListValue(<<>>), NoneValue}

\* C19: on the empty string, the empty list or None both comma converters
\* return the empty list and do not fail, whatever choices, allow_wildcard,
\* case_sensitive and unique are.
C19_EmptyInputGivesEmptyList ==
    (pc \in {"returned", "raised"} /\ value \in EmptyInputs) =>
        (pc = "returned" /\ ret = <<>>)

\* The empty string handed to a converter whose choices hold no empty string.
C19_Witness ==
    /\ conv = "choice"
    /\ pc = "returned"
    /\ value = StrValue(<<>>)
    /\ ~obj.allow_wildcard
    /\ ret = <<>>

\* -------------------------------------------- claims: TypeConvertingIterator

AllConvertible == fn = "none" \/ \A i \in 1..Len(src) : src[i] \in {<<"1">>, <<"2">>}

\* What the conversion function makes of a source element it accepts.
Expected(e) == IF fn = "none" THEN e ELSE IF e = <<"1">> THEN 1 ELSE 2

\* C6: over a non-empty source whose elements are all convertible, the pulls
\* return f(s[0]), f(s[1]), ... in source order, each source element exactly
\* once, the first one included; without a conversion function the elements
\* come out unchanged.
C6_YieldsEveryElementInOrder ==
    (tpc \in {"ready", "exhausted"} /\ src # <<>> /\ AllConvertible) =>
        /\ Len(out) <= Len(src)
        /\ \A i \in 1..Len(out) : ~out[i].raised /\ out[i].val = Expected(src[i])
        /\ tpc = "exhausted" => Len(out) = Len(src)

C6_Witness ==
    /\ tpc = "exhausted"
    /\ fn = "int"
    /\ src = << <<"1">>, <<"2">>, <<"1">> >>
    /\ out = <<[raised |-> FALSE, val |-> 1], [raised |-> FALSE, val |-> 2],
               [raised |-> FALSE, val |-> 1]>>

\* C7: construction fails before any pull: over an empty source with
\* StopIteration, with or without a conversion function; over a source whose
\* first element the function rejects, with the function's own exception.
C7_ConstructionFailsEagerly ==
    (tpc \notin {"new", "idle"}) =>
        /\ src = <<>> => (tpc = "ctor_raised" /\ terr = "StopIteration" /\ out = <<>>)
        /\ (src # <<>> /\ fn = "int" /\ src[1] = <<"x">>)
              => (tpc = "ctor_raised" /\ terr = "ValueError" /\ out = <<>>)

\* The empty source with no conversion function.
C7_Witness ==
    /\ src = <<>>
    /\ fn = "none"
    /\ tpc = "ctor_raised"
    /\ terr = "StopIteration"

\* ------------------------------------------------- claims: files and URLs

\* C2: every temporary file a convert call creates is deleted exactly once,
\* by the cleanup run when the command's context closes and not before the
\* command has finished, whatever call created it.
C2_TempDeletedOnceAtClose ==
    /\ phase \in {"parsing", "finished"}
          => \A i \in 1..Len(tmp) : tmp[i].exists /\ tmp[i].unlinks = 0
    /\ phase = "closed"
          => \A i \in 1..Len(tmp) : ~tmp[i].exists /\ tmp[i].unlinks = 1

\* The GET of the last call was answered with a status that is no success.
NonSuccessResponse == call.get.kind = "response" /\ call.get.status >= 400

\* C3: when the GET completes with a non-success status, the two URL
\* converters fail with the status error, not the fetch error, and the
\* message names the URL and the status returned.
C3_StatusErrorNamesUrlAndStatus ==
    (fconv \in {"FileUrlIterString", "FileOrUrl"} /\ NonSuccessResponse) =>
        /\ call.pc = "raised"
        /\ call.err.msg = "Url does not return 200 OK"
        /\ call.err.url = call.token
        /\ call.err.status = call.get.status

RECURSIVE Concat(_)
Concat(ls) == IF ls = <<>> THEN <<>> ELSE Head(ls) \o Concat(Tail(ls))

RECURSIVE JoinLines(_)
JoinLines(ls) ==
    IF ls = <<>> THEN <<>>
    ELSE IF Len(ls) = 1 THEN ls[1]
    ELSE ls[1] \o <<"NL">> \o JoinLines(Tail(ls))

EndsWithNL(t) == t # <<>> /\ t[Len(t)] = "NL"

\* items are the lines of text t as iterating a file gives them: their
\* concatenation is t and each ends at a line feed or at the end of t.
IsFileLinesOf(items, t) ==
    /\ Concat(items) = t
    /\ \A i \in 1..Len(items) :
          /\ items[i] # <<>>
          /\ \A k \in 1..(Len(items[i]) - 1) : items[i][k] # "NL"
          /\ i < Len(items) => EndsWithNL(items[i])

\* items are the lines of text t without their line feeds.
IsLinesOf(items, t) ==
    /\ \A i \in 1..Len(items) : \A k \in 1..Len(items[i]) : items[i][k] # "NL"
    /\ JoinLines(items) = IF EndsWithNL(t) THEN SubSeq(t, 1, Len(t) - 1) ELSE t
    /\ Len(items) = Cardinality({k \in 1..Len(t) : t[k] = "NL"})
                        + (IF t # <<>> /\ ~EndsWithNL(t) THEN 1 ELSE 0)

PlainBody(b) == \A k \in 1..Len(b) : b[k] \notin {"C3", "A9", "CR"}

\* C5: in read mode FileUrlIterStringParamType.convert takes the first rule
\* that matches: an existing path gives the lines of the file and is never
\* fetched; else a URL is fetched and gives the lines of the body; else "-"
\* gives the standard-input stream; anything else gives the token alone.
C5_ResolutionOrder ==
    (fconv = "FileUrlIterString" /\ mode = "r" /\ call.pc # "none") =>
        LET v == call.token
            r == call.ret
        IN /\ v \in fs =>
                /\ call.pc = "returned" /\ r.kind = "iter" /\ r.origin = "file"
                /\ IsFileLinesOf(r.items, FileText(v))
                /\ call.get = NoGet
           /\ (v \notin fs /\ IsUrl(v)) =>
                /\ call.get # NoGet
                /\ (call.get.kind = "response" /\ call.get.status = 200
                        /\ PlainBody(call.get.content))
                     => /\ call.pc = "returned" /\ r.kind = "iter" /\ r.origin = "url"
                        /\ IsLinesOf(r.items, call.get.content)
                /\ (call.get.kind = "response" /\ call.get.status = 200
                        /\ call.get.content = <<"C3", "A9">>)
                     => (call.pc = "returned" /\ r.items = << <<"e'">> >>)
           /\ (v \notin fs /\ ~IsUrl(v) /\ v = <<"-">>) =>
                (call.pc = "returned" /\ r.kind = "stdin" /\ call.get = NoGet)
           /\ (v \notin fs /\ ~IsUrl(v) /\ v # <<"-">>) =>
                /\ call.pc = "returned" /\ r.kind = "iter" /\ r.items = <<v>>
                /\ call.get = NoGet

\* A token that is both an existing path and a URL: the file is read and no
\* GET is issued.
C5_Witness ==
    /\ fconv = "FileUrlIterString"
    /\ mode = "r"
    /\ call.token = UrlToken
    /\ UrlToken \in fs
    /\ call.pc = "returned"
    /\ call.ret.origin = "file"
    /\ gets = <<>>

\* ------------------------------------------ claims: modes, streams, fetches

\* C12: built with a mode without read access, FileUrlIterStringParamType and
\* FileIterStringParamType fail with the non-read-mode error on every token,
\* existing path, URL, "-" or literal, and FileOrUrlParamType fails with it
\* on every URL token; no GET has been issued, standard input has not been
\* opened or read and no temporary file has been created.
C12_NonReadModeFailsFirst ==
    (mode = "w" /\ call.pc # "none") =>
        /\ fconv \in {"FileUrlIterString", "FileIterString"} =>
              /\ call.pc = "raised"
              /\ call.err.msg = "stream cannot be opened in non-read mode"
        /\ (fconv = "FileOrUrl" /\ IsUrl(call.token)) =>
              /\ call.pc = "raised"
              /\ call.err.msg = "Url cannot be opened in non-read mode"
              /\ call.err.url = call.token
        /\ fconv \in {"FileUrlIterString", "FileIterString", "FileOrUrl"} =>
              /\ call.ngets = 0 /\ gets = <<>>
              /\ ~call.opened /\ call.read = 0 /\ stdin = FreshStdin
              /\ tmp = <<>>

\* An existing path handed to a FileIterStringParamType built for writing.
C12_Witness ==
    /\ fconv = "FileIterString"
    /\ mode = "w"
    /\ call.token = DataTxt
    /\ DataTxt \in fs
    /\ call.pc = "raised"
    /\ call.err = NonReadMode

\* C13: with a type configured, whatever fails while the resolved sequence
\* is wrapped, a first element the function rejects or a sequence that has
\* no element, leaves FileIterStringParamType.convert as the conversion
\* error, and the error names the cause of the failure.
C13_WrapFailureNamesCause ==
    (fconv = "FileIterString" /\ ftype = "int" /\ mode # "w" /\ call.pc = "raised") =>
        /\ call.err.exc = "BadParameter"
        /\ call.err.msg = "Error while converting iterator"
        /\ call.err.cause # ""

\* C14: in a read mode FileIterStringParamType.convert resolves an existing
\* path to the lines of the file, else "-" to the standard-input stream,
\* else the token to the one-element sequence holding it, a URL that is no
\* existing path included; with a type configured that sequence is what the
\* TypeConvertingIterator is built over. The converter issues no GET.
C14_FileIterResolution ==
    (fconv = "FileIterString" /\ mode # "w" /\ call.pc # "none") =>
        LET v == call.token
            r == call.ret
        IN /\ call.ngets = 0 /\ call.get = NoGet /\ gets = <<>>
           /\ ftype = "none" => (call.pc = "returned" /\ r.kind # "tci")
           /\ (ftype = "int" /\ call.pc = "returned") => r.kind = "tci"
           /\ call.pc = "returned" =>
                /\ v \in fs =>
                      (r.origin = "file" /\ IsFileLinesOf(r.items, FileText(v)))
                /\ (v \notin fs /\ v = <<"-">>) => r.origin = "stdin"
                /\ (v \notin fs /\ v # <<"-">>) =>
                      (r.origin = "literal" /\ r.items = <<v>>)

\* A URL that names no file comes back as the literal token, unfetched.
C14_Witness ==
    /\ fconv = "FileIterString"
    /\ mode = "r"
    /\ ftype = "none"
    /\ call.token = UrlToken
    /\ UrlToken \notin fs
    /\ call.pc = "returned"
    /\ call.ret = IterOver("literal", <<UrlToken>>)
    /\ gets = <<>>

\* The last call is one that resolves a URL: FileUrlIterStringParamType on a
\* URL that is no existing path, FileOrUrlParamType on a URL.
UrlResolving ==
    /\ call.pc # "none"
    /\ IsUrl(call.token)
    /\ \/ fconv = "FileUrlIterString" /\ call.token \notin fs
       \/ fconv = "FileOrUrl"

\* The one GET failed: requests.get raised or the status is no success.
GetFailed == call.get.kind = "exception" \/ NonSuccessResponse

\* C15 as stated: every convert call that resolves a URL issues exactly one
\* GET, a failed GET fails the call with an error naming the URL, and no
\* call of any converter issues more than one GET.
C15_ExactlyOneGet ==
    /\ call.ngets <= 1
    /\ Len(gets) <= ncalls
    /\ UrlResolving =>
          /\ call.ngets = 1
          /\ GetFailed => (call.pc = "raised" /\ call.err.url = call.token)

\* C15, amended: what C15 states holds for converters built with a read
\* mode; built without one, a URL-resolving call fails on the mode and
\* issues no GET. No call of any converter issues more than one GET.
C15_OneGetInReadMode ==
    /\ call.ngets <= 1
    /\ Len(gets) <= ncalls
    /\ (UrlResolving /\ mode # "w") =>
          /\ call.ngets = 1
          /\ call.get # NoGet
          /\ gets # <<>> /\ gets[Len(gets)] = call.token
          /\ GetFailed =>
                (call.pc = "raised" /\ call.err.exc = "BadParameter"
                    /\ call.err.url = call.token)
    /\ (UrlResolving /\ mode = "w") => (call.ngets = 0 /\ call.pc = "raised")
    /\ ~UrlResolving => call.ngets = 0

\* A GET answered with status 500 fails the call; one GET is on the log.
C15_Witness ==
    /\ fconv = "FileOrUrl"
    /\ mode = "r"
    /\ call.token = UrlToken
    /\ call.get.status = 500
    /\ call.pc = "raised"
    /\ call.err.url = UrlToken
    /\ gets = <<UrlToken>>

NoCR(t) == \A k \in 1..Len(t) : t[k] # "CR"

\* C16 as stated: the handle returned for a literal-text token reads back
\* exactly the token, and the handle returned for a fetched URL reads back
\* exactly the response body.
C16_RoundTripExact ==
    readback.done =>
        /\ readback.ok
        /\ fconv = "StringOrFile" => readback.data = call.token
        /\ fconv = "FileOrUrl" => readback.data = call.get.content

\* C16, amended: the temporary file holds the whole token text, or the whole
\* response body, when it is opened. A handle opened in binary read mode
\* reads back exactly those bytes. A handle opened in text mode reads back
\* the token exactly when it holds no carriage return and otherwise the
\* token with every line end as a line feed; it reads back the decoded text
\* of a UTF-8 body, and the read fails on a body that is no UTF-8.
C16_RoundTripUpToReadMode ==
    readback.done =>
        LET onDisk == tmp[call.ret.tmp].content
            data == readback.data
        IN /\ fconv = "StringOrFile" =>
                /\ onDisk = call.token
                /\ readback.ok
                /\ (mode = "rb" \/ NoCR(call.token)) => data = call.token
                /\ mode = "r" =>
                      (NoCR(data) /\ splitlines(data) = splitlines(call.token))
           /\ fconv = "FileOrUrl" =>
                /\ onDisk = call.get.content
                /\ mode = "rb" => (readback.ok /\ data = onDisk)
                /\ (mode = "r" /\ PlainBody(onDisk)) => (readback.ok /\ data = onDisk)
                /\ (mode = "r" /\ onDisk = <<"C3", "A9">>) =>
                      (readback.ok /\ data = <<"e'">>)
                /\ (mode = "r" /\ onDisk = <<"x", "CR", "NL", "y">>) =>
                      (readback.ok /\ data = <<"x", "NL", "y">>)
                /\ (mode = "r" /\ onDisk = <<"C3">>) => ~readback.ok

\* A token of two lines read back from its temporary file.
C16_Witness ==
    /\ fconv = "StringOrFile"
    /\ mode = "r"
    /\ call.token = TwoLines
    /\ readback.done
    /\ readback.data = TwoLines

\* C17: UrlOrListFromFileStdinParamType.convert returns the one-element list
\* holding the token when the token is a URL, an existing path or not, and
\* then issues no GET, opens no file and does not touch standard input; any
\* other token goes to click.File.convert, which for reading gives a handle
\* on an existing path, the standard-input stream on "-" and the
\* no-such-file error on a path that does not exist.
C17_UrlWrappedElseFileOpening ==
    (fconv = "UrlOrListFromFileStdin" /\ call.pc # "none") =>
        LET v == call.token
            r == call.ret
        IN /\ call.ngets = 0 /\ gets = <<>> /\ tmp = <<>>
           /\ IsUrl(v) =>
                /\ call.pc = "returned"
                /\ r.kind = "list" /\ r.items = <<v>>
                /\ ~call.opened /\ call.read = 0
           /\ (~IsUrl(v) /\ mode # "w") =>
                /\ v \in fs =>
                      (call.pc = "returned" /\ r.kind = "handle" /\ r.path = v /\ r.tmp = 0)
                /\ v = <<"-">> =>
                      (call.pc = "returned" /\ r.kind = "stdin" /\ call.read = 0)
                /\ (v \notin fs /\ v # <<"-">>) =>
                      /\ call.pc = "raised"
                      /\ call.err.msg = "No such file or directory"
                      /\ call.err.url = v
           /\ (~IsUrl(v) /\ mode = "w") =>
                (call.pc = "returned" /\ r.kind \in {"handle", "stdout"})

\* A URL that is also an existing path: wrapped, not opened.
C17_Witness ==
    /\ fconv = "UrlOrListFromFileStdin"
    /\ mode = "r"
    /\ call.token = UrlToken
    /\ UrlToken \in fs
    /\ call.pc = "returned"
    /\ call.ret = ListOf(<<UrlToken>>)

\* C18: StringsListOrStdinParamType.convert returns the standard-input
\* stream exactly when the value is the string "-"; any other string, the
\* empty one included, comes back as the one-element list holding it; a
\* value that is no string comes back as it is.
C18_StdinIffDash ==
    (fconv = "StringsListOrStdin" /\ call.pc # "none") =>
        LET val == call.value
            r == call.ret
        IN /\ call.pc = "returned"
           /\ r.kind = "stdin" <=> (val.kind = "str" /\ val.s = <<"-">>)
           /\ call.opened <=> r.kind = "stdin"
           /\ (val.kind = "str" /\ val.s # <<"-">>) =>
                (r.kind = "list" /\ r.items = <<val.s>>)
           /\ val.kind = "list" => (r.kind = "list" /\ r.items = val.items)
           /\ val.kind = "none" => r.kind = "none"

\* A list that holds "-" is no "-": it comes back as it is.
C18_Witness ==
    /\ fconv = "StringsListOrStdin"
    /\ call.value = ListValue(<<Dash>>)
    /\ call.pc = "returned"
    /\ call.ret.kind = "list"
    /\ call.ret.items = <<Dash>>
    /\ ~call.opened

\* A step that is a convert call.
ConvertStep == ncalls' = ncalls + 1

\* The call that the step makes is FileIterStringParamType.convert with a
\* type configured, in a read mode, on "-" where no file has that name.
TypedStdinCall ==
    /\ fconv = "FileIterString"
    /\ ftype # "none"
    /\ mode # "w"
    /\ call'.token = <<"-">>
    /\ <<"-">> \notin fs

\* C20 as stated: no convert call reads standard input, whatever the
\* converter and its configuration; a call obtains the stream only for the
\* token "-" and standard input changes only when the caller iterates.
C20_NoStdinReadInConvert ==
    [][ /\ ConvertStep =>
              /\ call'.read = 0
              /\ stdin' = stdin
              /\ call'.opened => call'.value = StrValue(<<"-">>)
        /\ stdin' # stdin => (~ConvertStep /\ pull'.done) ]_vars

\* C20, amended: a convert call obtains the standard-input stream only for
\* the token "-", and reads nothing from it, except
\* FileIterStringParamType.convert with a type configured, which on "-"
\* makes one next() call on the stream and so takes its first line, or
\* meets its end and fails; apart from that standard input is read only by
\* the caller's next() on a returned stream, and the line the typed call
\* took is handed to the caller from the buffer without a further read.
C20_StdinReadOnlyByTypedCheck ==
    [][ /\ ConvertStep =>
              /\ call'.opened => call'.value = StrValue(<<"-">>)
              /\ call'.read = (IF TypedStdinCall THEN 1 ELSE 0)
              /\ call'.read = 0 => stdin' = stdin
              /\ call'.read = 1 =>
                    /\ stdin'.taken \in {stdin.taken, stdin.taken + 1}
                    /\ stdin'.taken = stdin.taken => call'.pc = "raised"
                    /\ call'.pc = "returned" =>
                          (Len(call'.ret.items) = 1 /\ stdin'.taken = stdin.taken + 1)
        /\ (~ConvertStep /\ stdin' # stdin) =>
              (pull'.done /\ pull'.from \in {"stdin", "end"})
        /\ (~ConvertStep /\ pull'.done /\ pull'.from = "buffer") => stdin' = stdin ]_vars

\* The typed converter has taken the first line of standard input during
\* convert and holds it for the caller.
C20_Witness ==
    /\ fconv = "FileIterString"
    /\ ftype = "int"
    /\ call.token = Dash
    /\ call.pc = "returned"
    /\ call.read = 1
    /\ call.ret = Tci(StdinStream, << <<"1", "NL">> >>)
    /\ stdin = [taken |-> 1, eof |-> FALSE]
    /\ ~pull.done

\* ------------------------------------------- claims: cleanup and temporaries

\* The cleanups for the temporary file t among the registered callbacks cbs.
CallbacksIn(cbs, t) == Cardinality({i \in 1..Len(cbs) : cbs[i] = t})

\* The cleanups registered for the temporary file t and not yet run.
Callbacks(t) == CallbacksIn(onClose, t)

\* The step is the close of the command's context.
CloseStep == phase = "finished" /\ phase' = "closed"

\* The close of the context has failed to delete the temporary file t: the
\* file was already gone when its cleanup ran.
DeletionFailed(t) == phase = "closed" /\ tmp[t].attempts = 1 /\ tmp[t].unlinks = 0

\* Deletion is attempted at most once per temporary file, and a failed
\* deletion is ignored: no error leaves the cleanup, and the close leaves the
\* outcome of the command (what convert returned or raised, what the body
\* pulled and read) as it was.
AtMostOneAttemptFailureIgnored ==
    /\ \A t \in 1..Len(tmp') : tmp'[t].attempts <= 1 /\ ~tmp'[t].escaped
    /\ CloseStep => /\ call' = call
                    /\ pull' = pull
                    /\ readback' = readback
                    /\ \A t \in 1..Len(tmp) : tmp'[t].attempts = Callbacks(t)

\* C21: every temporary file has exactly one cleanup registered for the close
\* of the context, so its deletion is attempted at most once; a deletion that
\* fails because the file is already gone is ignored: the cleanup raises
\* nothing and the outcome of the command is unchanged.
C21_SingleCleanupFailureIgnored ==
    [][/\ phase # "closed" => \A t \in 1..Len(tmp) : Callbacks(t) = 1
       /\ AtMostOneAttemptFailureIgnored]_vars

\* What holds of the cleanups: a call given a context registers exactly one
\* for the temporary file it creates, a call given none registers nothing,
\* and the attempts and failures are as C21 says.
C21_OneCleanupPerContextCall ==
    [][/\ Len(tmp') = Len(tmp) + 1
          => /\ CallbacksIn(onClose', Len(tmp')) = (IF call'.ctx THEN 1 ELSE 0)
             /\ \A t \in 1..Len(tmp) : CallbacksIn(onClose', t) = Callbacks(t)
       /\ \A t \in 1..Len(tmp) : Callbacks(t) <= 1
       /\ AtMostOneAttemptFailureIgnored]_vars

\* A context closed after somebody else had removed a temporary file whose
\* cleanup was registered: the deletion failed.
C21_Witness == \E t \in 1..Len(tmp) : DeletionFailed(t)

\* The call the step makes is on one of the two paths that end in a
\* temporary file: a URL fetched with success in a read mode
\* (FileOrUrlParamType), or a token that is neither "-" nor an existing path
\* (StringOrFileParamType).
TempPath(c) ==
    \/ /\ fconv = "FileOrUrl"
       /\ IsUrl(c.token)
       /\ mode \in {"r", "rb"}
       /\ c.get.kind = "response" /\ c.get.status < 400
    \/ /\ fconv = "StringOrFile"
       /\ c.token # <<"-">>
       /\ c.token \notin fs

\* The call handed its token as it was to ordinary file opening: a handle on
\* that very path, the standard stream for "-", or file opening's own
\* failure naming the path.
OpenedAsGiven(c) ==
    \/ /\ c.pc = "returned"
       /\ \/ c.ret.kind = "handle" /\ c.ret.path = c.token /\ c.ret.tmp = 0
          \/ c.token = <<"-">> /\ c.ret.kind \in {"stdin", "stdout"}
    \/ /\ c.pc = "raised"
       /\ c.err.msg = "No such file or directory"
       /\ c.err.url = c.token

\* The call failed in the URL branch, before any file was opened.
UrlBranchFailed(c) ==
    /\ fconv = "FileOrUrl"
    /\ IsUrl(c.token)
    /\ c.pc = "raised"
    /\ c.err.msg \in {"Url cannot be opened in non-read mode", "Error while fetching"}
    /\ c.err.url = c.token

\* C22: a convert call creates a temporary file exactly when it is
\* FileOrUrlParamType's on a URL, in a read mode, with a successful fetch, or
\* StringOrFileParamType's on a token that is not "-" and names no existing
\* path; it then creates one file and opens that. Every other call, of any
\* converter, creates no temporary file and registers no cleanup; the two
\* converters then hand the original token unchanged to ordinary file
\* opening, or the conversion fails.
C22_TempOnlyOnUrlOrLiteral ==
    [][ConvertStep =>
          IF TempPath(call')
          THEN /\ Len(tmp') = Len(tmp) + 1
               /\ SubSeq(tmp', 1, Len(tmp)) = tmp
               /\ call'.pc = "returned"
               /\ call'.ret.kind = "handle" /\ call'.ret.tmp = Len(tmp')
          ELSE /\ tmp' = tmp
               /\ onClose' = onClose
               /\ call'.ret.tmp = 0
               /\ fconv \in {"FileOrUrl", "StringOrFile"}
                     => (OpenedAsGiven(call') \/ UrlBranchFailed(call'))
               /\ (fconv = "StringOrFile" \/ ~IsUrl(call'.token))
                     => ~UrlBranchFailed(call')]_vars

\* StringOrFileParamType was given an existing path after a literal text:
\* one temporary file from the first call, none from the second.
C22_Witness ==
    /\ fconv = "StringOrFile"
    /\ ncalls = 2
    /\ Len(tmp) = 1
    /\ call.token \in fs
    /\ call.pc = "returned"
    /\ call.ret.kind = "handle" /\ call.ret.path = call.token

\* The source elements the conversion function rejects, by position.
Rejected == {k \in 1..Len(src) : ~Convertible(src[k])}

\* The first k - 1 elements of the source are convertible and the k-th is not.
FirstRejectedAt(k) == k \in Rejected /\ \A j \in Rejected : k <= j

\* C23: with a conversion function, only the first element is validated at
\* construction. Over a source whose first k - 1 elements (k >= 2) are
\* convertible and whose k-th is not, construction succeeds, the first k - 1
\* pulls return the converted elements in order and the k-th pull raises the
\* function's exception; the function has been applied to the first element
\* twice (at construction and at the first pull) and once to every later
\* element pulled.
C23_OnlyFirstElementValidatedEagerly ==
    (fn = "int" /\ tpc \notin {"new", "idle"}) =>
        \A k \in 2..Len(src) : FirstRejectedAt(k) =>
            /\ tpc # "ctor_raised"
            /\ \A i \in 1..Len(out) :
                  i < k => (~out[i].raised /\ out[i].val = IntOf(src[i]))
            /\ Len(out) >= k => out[k].raised
            /\ (Len(out) = k /\ tpc = "ready") => terr = "ValueError"
            /\ Len(out) <= Len(src)
            /\ applied = <<src[1]>> \o SubSeq(src, 1, Len(out))

\* The third pull over '1', '2', 'x' has raised, after 1 and 2 came out.
C23_Witness ==
    /\ fn = "int"
    /\ src = << <<"1">>, <<"2">>, <<"x">> >>
    /\ out = <<[raised |-> FALSE, val |-> 1], [raised |-> FALSE, val |-> 2],
               [raised |-> TRUE, val |-> <<"x">>]>>
    /\ terr = "ValueError"
    /\ applied = << <<"1">>, <<"1">>, <<"2">>, <<"x">> >>

\* ------------------------------------------ claims: empty parts, list input

\* The token has a leading, a trailing or a doubled comma.
CommaEdge(s) ==
    /\ s # <<>>
    /\ \/ s[1] = ","
       \/ s[Len(s)] = ","
       \/ \E i \in 1..(Len(s) - 1) : s[i] = "," /\ s[i + 1] = ","

\* The call was made on such a string token.
EmptyPartCall == Done /\ value.kind = "str" /\ CommaEdge(value.s)

\* The call was made on a non-empty list.
ListCall == Done /\ value.kind = "list" /\ value.items # <<>>

\* What the claim says of ListCommaSeparated and of list input: the empty
\* string is in the list returned for a token with an empty part, and the
\* elements of a list are used as they are, whitespace kept.
EmptyKeptListsAsGiven ==
    /\ EmptyPartCall => <<>> \in SeqRange(parts)
    /\ (EmptyPartCall /\ conv = "list") => <<>> \in SeqRange(ret)
    /\ ListCall =>
          /\ parts = value.items
          /\ conv = "list" =>
                /\ SeqRange(ret) = SeqRange(value.items)
                /\ ~obj.unique => ret = value.items
          /\ (conv = "choice" /\ NoWildcardApplies) =>
                /\ pc = "returned" => ret = value.items
                /\ pc = "raised" => err.val \in SeqRange(value.items)
                /\ (value.items[1] = <<" ", "a">> /\ obj.choices = << <<"a">>, <<"l">> >>)
                      => (pc = "raised" /\ err.val = <<" ", "a">>)

\* C24, as stated: the empty parts of a string token are kept and list input
\* is not stripped. For a token with a leading, trailing or doubled comma
\* the empty string is a part: ChoiceCommaSeparated.convert fails naming the
\* empty value unless "" is a configured choice or a wildcard part is
\* present, and ListCommaSeparated.convert returns a list holding "". Given
\* a list, both converters use its elements as given.
C24_EmptyPartFailsNamingEmpty ==
    /\ EmptyKeptListsAsGiven
    /\ (EmptyPartCall /\ conv = "choice" /\ <<>> \notin ChoiceSet /\ ~HasWildcardPart)
          => (pc = "raised" /\ err.val = <<>>)

\* Every part before the first empty one is a valid choice.
EmptyPartComesFirst ==
    \E i \in 1..Len(parts) :
        parts[i] = <<>> /\ \A j \in 1..(i - 1) : MatchesChoice(parts[j])

\* C24, amended: as above, but ChoiceCommaSeparated.convert, which always
\* fails on such a token when "" is no configured choice and no wildcard
\* applies, names the first invalid part: the empty value when every part
\* before the first empty one is a valid choice, an earlier invalid part
\* otherwise. A wildcard part counts only with allow_wildcard true.
C24_EmptyPartFailsOnFirstInvalid ==
    /\ EmptyKeptListsAsGiven
    /\ (EmptyPartCall /\ conv = "choice" /\ <<>> \notin ChoiceSet /\ NoWildcardApplies)
          => /\ pc = "raised"
             /\ err.msg = "is not a valid choice"
             /\ err.val = parts[FirstInvalid]
             /\ EmptyPartComesFirst <=> err.val = <<>>
    /\ (EmptyPartCall /\ conv = "choice" /\ <<>> \in ChoiceSet /\ NoWildcardApplies
           /\ \A i \in 1..Len(parts) : MatchesChoice(parts[i]))
          => (pc = "returned" /\ ret = parts /\ <<>> \in SeqRange(ret))

\* "a,,l" against the choices a and l: the empty part is named.
C24_Witness ==
    /\ conv = "choice"
    /\ obj.choices = << <<"a">>, <<"l">> >>
    /\ value = StrValue(<<"a", ",", ",", "l">>)
    /\ pc = "raised"
    /\ err.val = <<>>
    /\ checked = << <<"a">>, <<>> >>

====
